---- MODULE Spec2Model ----
(***************************************************************************)
(* Transformation history of pymatgen.alchemy.materials:                   *)
(*   TransformedStructure      one structure with its undo/redo history    *)
(*   TransformedStructureTree  a list of TransformedStructure objects      *)
(*                             advanced together                           *)
(* Structures and transformations are opaque: a structure is a small       *)
(* number, a transformation a name with a fixed (deterministic) result.    *)
(***************************************************************************)
EXTENDS Integers, Sequences, FiniteSets, TLC

\* ---------------------------------------------------------------- bounds
NArt == 2        \* structures are 0 .. NArt-1
MaxLen == 4      \* appends are issued while structures + redo entries < MaxLen
MaxSeed == 1     \* steps of a seeded history
MaxRun == 5      \* length of a recorded undo/redo streak
MaxMembers == 2  \* structures handed to the constructor of a tree
MaxCalls == 4    \* calls made on a tree
MaxTree == 3     \* appends are issued on a tree while it has fewer members

\* ------------------------------------------------ values and collaborators
Arts == 0 .. (NArt - 1)

\* What apply_transformation hands back: one structure, a list of
\* structures, or an exception.
One(n) == [kind |-> "one", v |-> <<n>>]
Many(s) == [kind |-> "seq", v |-> s]
Raise == [kind |-> "raise", v |-> <<>>]

Ops == {"inc", "picky", "split", "prune"}

\* transformation.apply_transformation(structure): deterministic.
\*   inc    1 -> 1, always accepted
\*   picky  1 -> 1, rejects odd structures
\*   split  1 -> 2: structure 0 and the structure itself, so that the second
\*          result for s is not among the results for the first
\*   prune  1 -> 0 (an empty list) for an odd structure, 1 -> 1 for an even
\*          one, so that one call can prune some members and advance others
\* No transformation accepts a list in place of a structure.
apply_transformation(t, s) ==
    IF s.kind # "one" THEN Raise
    ELSE LET n == s.v[1] IN
         CASE t = "inc" -> One((n + 1) % NArt)
           [] t = "picky" -> IF n % 2 = 1 THEN Raise ELSE One((n + 2) % NArt)
           [] t = "split" -> Many(<<0, n>>)
           [] OTHER -> IF n % 2 = 1 THEN Many(<<>>) ELSE One((n + 1) % NArt)

Last(s) == s[Len(s)]
Rep(c, k) == [i \in 1 .. k |-> c]
Front(s) == SubSeq(s, 1, Len(s) - 1)
Reverse(s) == [i \in 1 .. Len(s) |-> s[Len(s) + 1 - i]]

\* ------------------------------------------------- TransformedStructure
\* The result of a call: ok = FALSE when it raised, ts = the object as the
\* call left it.
Ret(ok, ts) == [ok |-> ok, ts |-> ts]

\* Stands for no object.
NoTS == [source |-> "empty", structures |-> <<One(0)>>,
         transformations |-> <<>>, redo_trans |-> <<>>]

\* append_transformation(transformation, clear_redo)
TS_append_transformation_HalfApplied(ts, t, clear_redo) ==
    LET new_s == apply_transformation(t, Last(ts.structures)) IN
    IF new_s.kind = "raise"
    THEN Ret(FALSE, [ts EXCEPT !.transformations = Append(@, t)])
    ELSE Ret(TRUE, [ts EXCEPT !.structures = Append(@, new_s),
                              !.transformations = Append(@, t),
                              !.redo_trans = IF clear_redo THEN <<>> ELSE @])

TS_append_transformation_KeepRedo(ts, t, clear_redo) ==
    LET new_s == apply_transformation(t, Last(ts.structures)) IN
    IF new_s.kind = "raise" THEN Ret(FALSE, ts)
    ELSE Ret(TRUE, [ts EXCEPT !.structures = Append(@, new_s),
                              !.transformations = Append(@, t)])

TS_append_transformation(ts, t, clear_redo) ==
    LET new_s == apply_transformation(t, Last(ts.structures)) IN
    IF new_s.kind = "raise" THEN Ret(FALSE, ts)
    ELSE Ret(TRUE, [ts EXCEPT !.structures = Append(@, new_s),
                              !.transformations = Append(@, t),
                              !.redo_trans = IF clear_redo THEN <<>> ELSE @])

\* extend_transformations(transformations): stops at the first exception.
RECURSIVE TS_extend_transformations_From(_, _, _)
TS_extend_transformations_From(first, ts, ops) ==
    IF ops = <<>> THEN Ret(TRUE, ts)
    ELSE LET r == TS_append_transformation(ts, Head(ops), TRUE) IN
         IF r.ok THEN TS_extend_transformations_From(first, r.ts, Tail(ops))
         ELSE Ret(FALSE, first)

TS_extend_transformations_Atomic(ts, ops) == TS_extend_transformations_From(ts, ts, ops)

RECURSIVE TS_extend_transformations(_, _)
TS_extend_transformations(ts, ops) ==
    IF ops = <<>> THEN Ret(TRUE, ts)
    ELSE LET r == TS_append_transformation(ts, Head(ops), TRUE) IN
         IF r.ok THEN TS_extend_transformations(r.ts, Tail(ops)) ELSE r

\* undo_last_transformation()
TS_undo_last_transformation_OffByOne(ts) ==
    IF Len(ts.transformations) <= 1 THEN Ret(FALSE, ts)
    ELSE Ret(TRUE, [ts EXCEPT !.structures = Front(@),
                              !.transformations = Front(@),
                              !.redo_trans = Append(@, Last(ts.transformations))])

TS_undo_last_transformation_KeepStructure(ts) ==
    IF Len(ts.transformations) = 0 THEN Ret(FALSE, ts)
    ELSE Ret(TRUE, [ts EXCEPT !.transformations = Front(@),
                              !.redo_trans = Append(@, Last(ts.transformations))])

TS_undo_last_transformation_RejectClears(ts) ==
    IF Len(ts.transformations) = 0 THEN Ret(FALSE, [ts EXCEPT !.redo_trans = <<>>])
    ELSE Ret(TRUE, [ts EXCEPT !.structures = Front(@),
                              !.transformations = Front(@),
                              !.redo_trans = Append(@, Last(ts.transformations))])

TS_undo_last_transformation(ts) ==
    IF Len(ts.transformations) = 0 THEN Ret(FALSE, ts)
    ELSE Ret(TRUE, [ts EXCEPT !.structures = Front(@),
                              !.transformations = Front(@),
                              !.redo_trans = Append(@, Last(ts.transformations))])

\* redo_next_transformation(): the entry is popped before it is replayed.
TS_redo_next_transformation_ClearRedo(ts) ==
    IF Len(ts.redo_trans) = 0 THEN Ret(FALSE, ts)
    ELSE TS_append_transformation([ts EXCEPT !.redo_trans = Front(@)],
                                  Last(ts.redo_trans), TRUE)

TS_redo_next_transformation_Fifo(ts) ==
    IF Len(ts.redo_trans) = 0 THEN Ret(FALSE, ts)
    ELSE TS_append_transformation([ts EXCEPT !.redo_trans = Tail(@)],
                                  Head(ts.redo_trans), FALSE)

TS_redo_next_transformation(ts) ==
    IF Len(ts.redo_trans) = 0 THEN Ret(FALSE, ts)
    ELSE TS_append_transformation([ts EXCEPT !.redo_trans = Front(@)],
                                  Last(ts.redo_trans), FALSE)

\* __len__()
TS_len(ts) == Len(ts.structures)

\* A seeded history: <<source, step, ...>>; a step is a serialized
\* transformation carrying the structure it was applied to.
Step(t, s) == [t |-> t, input_structure |-> s]

\* Structure.from_dict / transformation_from_dict of a history step.
Structure_from_dict(d) == One(d)
transformation_from_dict(step) == step.t

\* __init__(structure, transformations, history); history = <<>> is None.
TS_init_SeedsRedo(structure, transformations, history) ==
    LET seeded == Len(history) > 0
        n == IF seeded THEN Len(history) - 1 ELSE 0
        ts0 == [source |-> IF seeded THEN history[1] ELSE "empty",
                structures |->
                    [i \in 1 .. n |-> Structure_from_dict(history[i + 1].input_structure)]
                    \o <<structure>>,
                transformations |->
                    [i \in 1 .. n |-> transformation_from_dict(history[i + 1])],
                redo_trans |->
                    [i \in 1 .. n |-> transformation_from_dict(history[i + 1])]]
    IN TS_extend_transformations(ts0, transformations)

TS_init(structure, transformations, history) ==
    LET seeded == Len(history) > 0
        n == IF seeded THEN Len(history) - 1 ELSE 0
        ts0 == [source |-> IF seeded THEN history[1] ELSE "empty",
                structures |->
                    [i \in 1 .. n |-> Structure_from_dict(history[i + 1].input_structure)]
                    \o <<structure>>,
                transformations |->
                    [i \in 1 .. n |-> transformation_from_dict(history[i + 1])],
                redo_trans |-> <<>>]
    IN TS_extend_transformations(ts0, transformations)

\* ---------------------------------------- queries of TransformedStructure
\* The result of a query: ok = FALSE when it raised, ts = the object as the
\* call left it, out = what it returned.
\* out.v is a record in every case; Nothing stands for no value.
Out(of, index, v) == [of |-> of, index |-> index, v |-> v]
Nothing == [nothing |-> TRUE]

\* What the caller holds of a query: the query (of, index), whether it
\* returned, the value, the object before the call, and whether the caller
\* has changed the value since.
Held(r, pre) ==
    [of |-> r.out.of, index |-> r.out.index, v |-> r.out.v, ok |-> r.ok, pre |-> pre,
     changed |-> FALSE]
NoOut == Held([ok |-> TRUE, out |-> Out("none", 0, Nothing)], NoTS)

\* The pair __getitem__ returns.
Snapshot(structure, transformations) ==
    [structure |-> structure, transformations |-> transformations]
QRet(ok, ts, out) == [ok |-> ok, ts |-> ts, out |-> out]

\* __version__
version == "1.0"

\* Structure.to_dict, the inverse of Structure.from_dict.
Structure_to_dict(s) == s.v[1]

\* to_dict: reads _structures[-1] and _structures[i] for every
\* transformation i; a list of structures has no to_dict and raises.  A step
\* is t.to_dict with input_structure set.
TS_to_dict_ShiftedInput(ts) ==
    LET n == Len(ts.transformations) IN
    IF \E i \in {Len(ts.structures)} \cup 1 .. n : ts.structures[i].kind # "one"
    THEN QRet(FALSE, ts, Out("to_dict", 0, Nothing))
    ELSE QRet(TRUE, ts, Out("to_dict", 0,
              [structure |-> Structure_to_dict(Last(ts.structures)),
               history |-> <<ts.source>> \o
                   [i \in 1 .. n |-> Step(ts.transformations[i],
                                         Structure_to_dict(ts.structures[i + 1]))],
               version |-> version]))

TS_to_dict_NoSource(ts) ==
    LET n == Len(ts.transformations) IN
    IF \E i \in {Len(ts.structures)} \cup 1 .. n : ts.structures[i].kind # "one"
    THEN QRet(FALSE, ts, Out("to_dict", 0, Nothing))
    ELSE QRet(TRUE, ts, Out("to_dict", 0,
              [structure |-> Structure_to_dict(Last(ts.structures)),
               history |-> <<"empty">> \o
                   [i \in 1 .. n |-> Step(ts.transformations[i],
                                         Structure_to_dict(ts.structures[i]))],
               version |-> version]))

TS_to_dict_WithRedo(ts) ==
    LET all == ts.transformations \o Reverse(ts.redo_trans)
        n == Len(ts.transformations)
    IN
    IF \E i \in {Len(ts.structures)} \cup 1 .. n : ts.structures[i].kind # "one"
    THEN QRet(FALSE, ts, Out("to_dict", 0, Nothing))
    ELSE QRet(TRUE, ts, Out("to_dict", 0,
              [structure |-> Structure_to_dict(Last(ts.structures)),
               history |-> <<ts.source>> \o
                   [i \in 1 .. Len(all) |->
                       Step(all[i], Structure_to_dict(
                                IF i <= n THEN ts.structures[i]
                                ELSE Last(ts.structures)))],
               version |-> version]))

TS_to_dict(ts) ==
    LET n == Len(ts.transformations) IN
    IF \E i \in {Len(ts.structures)} \cup 1 .. n : ts.structures[i].kind # "one"
    THEN QRet(FALSE, ts, Out("to_dict", 0, Nothing))
    ELSE QRet(TRUE, ts, Out("to_dict", 0,
              [structure |-> Structure_to_dict(Last(ts.structures)),
               history |-> <<ts.source>> \o
                   [i \in 1 .. n |-> Step(ts.transformations[i],
                                         Structure_to_dict(ts.structures[i]))],
               version |-> version]))

\* from_dict(d)
TS_from_dict(d) == TS_init(Structure_from_dict(d.structure), <<>>, d.history)

\* __getitem__(index): _structures[index] raises IndexError outside
\* -len .. len-1 and counts a negative index from the end; the slice
\* _transformations[0:index] never raises.
TS_getitem(ts, index) ==
    LET n == Len(ts.structures)
        m == Len(ts.transformations)
        stop == IF index >= 0
                THEN (IF index < m THEN index ELSE m)
                ELSE (IF m + index > 0 THEN m + index ELSE 0)
    IN
    IF index >= n \/ index < 0 - n THEN QRet(FALSE, ts, Out("getitem", index, Nothing))
    ELSE QRet(TRUE, ts, Out("getitem", index,
              Snapshot(ts.structures[((index + n) % n) + 1],
                       SubSeq(ts.transformations, 1, stop))))

\* The accessors structures and transformations return a new list: shared =
\* FALSE says that the list returned is not the object's own.
TS_structures_Shared(ts) ==
    QRet(TRUE, ts, Out("structures", 0, [shared |-> TRUE, structures |-> ts.structures]))

TS_structures(ts) ==
    QRet(TRUE, ts, Out("structures", 0, [shared |-> FALSE, structures |-> ts.structures]))

TS_transformations(ts) ==
    QRet(TRUE, ts, Out("transformations", 0,
                       [shared |-> FALSE, transformations |-> ts.transformations]))

\* final_structure
TS_final_structure(ts) == QRet(TRUE, ts, Out("final_structure", 0, Last(ts.structures)))

\* json.dumps of the dict to_dict returns: the text, as the sequence of its
\* tokens -- the keys with their values, the steps of the history flattened.
json_dumps(d) ==
    LET n == Len(d.history) - 1 IN
    <<"structure", d.structure, "version", d.version, "history", d.history[1]>>
    \o [k \in 1 .. 2 * n |->
           IF k % 2 = 1 THEN d.history[((k + 1) \div 2) + 1].t
           ELSE d.history[(k \div 2) + 1].input_structure]

\* json.loads: reads the tokens back into a dict.
json_loads(text) ==
    LET n == (Len(text) - 6) \div 2 IN
    [structure |-> text[2],
     history |-> <<text[6]>> \o [i \in 1 .. n |-> Step(text[5 + 2 * i], text[6 + 2 * i])],
     version |-> text[4]]

\* vasp_input_set.get_all_vasp_input(structure, generate_potcar): a dict from
\* file names to contents, every file written from the structure handed over.
get_all_vasp_input(structure, generate_potcar) ==
    [name \in {"INCAR", "POSCAR", IF generate_potcar THEN "POTCAR" ELSE "POTCAR.spec"}
        |-> structure]

\* get_vasp_input(vasp_input_set, generate_potcar): d = the generated files,
\* then d['transformations.json'] = json.dumps(self.to_dict).
TS_get_vasp_input_FirstStructure(ts, generate_potcar) ==
    LET d == get_all_vasp_input(ts.structures[1], generate_potcar)
        td == TS_to_dict(ts)
    IN
    IF ~td.ok THEN QRet(FALSE, ts, Out("get_vasp_input", 0, Nothing))
    ELSE QRet(TRUE, ts, Out("get_vasp_input", 0,
              [generate_potcar |-> generate_potcar,
               bundle |-> ("transformations.json" :> json_dumps(td.out.v)) @@ d]))

TS_get_vasp_input(ts, generate_potcar) ==
    LET d == get_all_vasp_input(Last(ts.structures), generate_potcar)
        td == TS_to_dict(ts)
    IN
    IF ~td.ok THEN QRet(FALSE, ts, Out("get_vasp_input", 0, Nothing))
    ELSE QRet(TRUE, ts, Out("get_vasp_input", 0,
              [generate_potcar |-> generate_potcar,
               bundle |-> ("transformations.json" :> json_dumps(td.out.v)) @@ d]))

\* ----------------------------- CifTransformedStructure, PoscarTransformedStructure
\* The result of a constructor: err names the exception when it raised, and
\* then there is no object.
Made(r) == [ok |-> r.ok, ts |-> IF r.ok THEN r.ts ELSE NoTS,
            err |-> IF r.ok THEN "none" ELSE "transformation"]
Failed(err) == [ok |-> FALSE, ts |-> NoTS, err |-> err]

\* re.sub("'", "\"", s): every single quote becomes a double quote.  A text
\* is the sequence of its characters.
re_sub_FirstOnly(s) ==
    [i \in 1 .. Len(s) |->
        IF s[i] = "'" /\ (\A j \in 1 .. (i - 1) : s[j] # "'") THEN "\"" ELSE s[i]]

re_sub(s) == [i \in 1 .. Len(s) |-> IF s[i] = "'" THEN "\"" ELSE s[i]]

\* str(datetime.datetime.utcnow())
utcnow == "utcnow"

\* CifTransformedStructure.__init__(cif_string, transformations).  A cif
\* string is its text together with what CifParser makes of it: whether it
\* parses, the data of its block (cif_dict[cif_keys[0]]) and the structures
\* get_structures returns.
Cif_init(cif_string, transformations) ==
    IF ~cif_string.parses THEN Failed("parse")
    ELSE IF cif_string.structures = <<>> THEN Failed("IndexError")
    ELSE LET raw_string == re_sub(cif_string.text)
             partial_cif == cif_string.cif_data
             source == IF "_database_code_ICSD" \in DOMAIN partial_cif
                       THEN partial_cif["_database_code_ICSD"] \o "-ICSD"
                       ELSE "uploaded cif"
             source_info == [source |-> source, datetime |-> utcnow,
                             original_file |-> raw_string, cif_data |-> partial_cif]
         IN Made(TS_init(One(cif_string.structures[1]), transformations, <<source_info>>))

\* PoscarTransformedStructure.__init__(poscar_string, transformations).  A
\* poscar string is its text together with what Poscar.from_string makes of
\* it: whether it parses, true_names and struct.
Poscar_init(poscar_string, transformations) ==
    IF ~poscar_string.parses THEN Failed("parse")
    ELSE IF ~poscar_string.true_names THEN Failed("ValueError")
    ELSE LET raw_string == re_sub(poscar_string.text)
             source_info == [source |-> "uploaded POSCAR", datetime |-> utcnow,
                             original_file |-> raw_string]
         IN Made(TS_init(One(poscar_string.struct), transformations, <<source_info>>))

\* --------------------------------------------- TransformedStructureTree
\* The tree holds references: tree is _transformed_structures, a list of
\* object ids, and heap[id] is the TransformedStructure with that id.  Two
\* positions holding one id are one object.
\* The result of a call on the tree: ok = FALSE when it raised; heap and tree
\* as the call left them; applied = the apply_transformation calls it made,
\* in order, each with the position visited and the structure handed over.
TreeRet(ok, hp, tr, applied) == [ok |-> ok, heap |-> hp, tree |-> tr, applied |-> applied]

\* list.remove(x): drops the first position holding x.
RECURSIVE ListRemove(_, _)
ListRemove(s, x) ==
    IF s = <<>> THEN <<>>
    ELSE IF Head(s) = x THEN Tail(s)
    ELSE <<Head(s)>> \o ListRemove(Tail(s), x)

RECURSIVE ListRemoveAll(_, _)
ListRemoveAll(s, del) ==
    IF del = <<>> THEN s ELSE ListRemoveAll(ListRemove(s, Head(del)), Tail(del))

\* for new_struct in new_structs: x._structures.append(new_struct);
\* x._transformations.append(transformation)  -- new_tstruct is x itself.
RECURSIVE AppendEach(_, _, _)
AppendEach(x, new_structs, t) ==
    IF new_structs = <<>> THEN x
    ELSE AppendEach([x EXCEPT !.structures = Append(@, One(Head(new_structs))),
                              !.transformations = Append(@, t)],
                    Tail(new_structs), t)

ClearRedo(x, clear_redo) == IF clear_redo THEN [x EXCEPT !.redo_trans = <<>>] ELSE x

\* The body of the loop of append_transformation for position i; acc holds
\* the heap, new_transformed_structures, structures_to_delete and the log.
Tree_append_visit_OneSuccessor(acc, tr, i, t, clear_redo) ==
    LET id == tr[i]
        x == acc.heap[id]
        new_structs == apply_transformation(t, Last(x.structures))
        log == Append(acc.applied, [pos |-> i, id |-> id, s |-> Last(x.structures)])
    IN
    IF new_structs.kind = "raise" THEN [acc EXCEPT !.ok = FALSE, !.applied = log]
    ELSE IF new_structs.kind = "seq"
    THEN [acc EXCEPT !.heap[id] =
                         ClearRedo(AppendEach(x, new_structs.v, t), clear_redo),
                     !.del = Append(@, id),
                     !.new = Append(@, id),
                     !.applied = log]
    ELSE [acc EXCEPT !.heap[id] =
                         ClearRedo([x EXCEPT !.structures = Append(@, new_structs),
                                             !.transformations = Append(@, t)],
                                   clear_redo),
                     !.applied = log]

Tree_append_visit(acc, tr, i, t, clear_redo) ==
    LET id == tr[i]
        x == acc.heap[id]
        new_structs == apply_transformation(t, Last(x.structures))
        log == Append(acc.applied, [pos |-> i, id |-> id, s |-> Last(x.structures)])
    IN
    IF new_structs.kind = "raise" THEN [acc EXCEPT !.ok = FALSE, !.applied = log]
    ELSE IF new_structs.kind = "seq"
    THEN [acc EXCEPT !.heap[id] =
                         ClearRedo(AppendEach(x, new_structs.v, t), clear_redo),
                     !.del = Append(@, id),
                     !.new = @ \o Rep(id, Len(new_structs.v)),
                     !.applied = log]
    ELSE [acc EXCEPT !.heap[id] =
                         ClearRedo([x EXCEPT !.structures = Append(@, new_structs),
                                             !.transformations = Append(@, t)],
                                   clear_redo),
                     !.applied = log]

RECURSIVE Tree_append_loop(_, _, _, _, _)
Tree_append_loop(acc, tr, i, t, clear_redo) ==
    IF i > Len(tr) \/ ~acc.ok THEN acc
    ELSE Tree_append_loop(Tree_append_visit(acc, tr, i, t, clear_redo),
                          tr, i + 1, t, clear_redo)

\* append_transformation(transformation, clear_redo): an exception leaves
\* the loop with the objects visited so far already changed.
Tree_append_transformation_KeepDeleted(hp, tr, t, clear_redo) ==
    LET acc == Tree_append_loop([ok |-> TRUE, heap |-> hp, new |-> <<>>,
                                 del |-> <<>>, applied |-> <<>>],
                                tr, 1, t, clear_redo)
    IN
    IF ~acc.ok THEN TreeRet(FALSE, acc.heap, tr, acc.applied)
    ELSE TreeRet(TRUE, acc.heap, tr \o acc.new, acc.applied)

Tree_append_transformation(hp, tr, t, clear_redo) ==
    LET acc == Tree_append_loop([ok |-> TRUE, heap |-> hp, new |-> <<>>,
                                 del |-> <<>>, applied |-> <<>>],
                                tr, 1, t, clear_redo)
    IN
    IF ~acc.ok THEN TreeRet(FALSE, acc.heap, tr, acc.applied)
    ELSE TreeRet(TRUE, acc.heap, ListRemoveAll(tr, acc.del) \o acc.new, acc.applied)

\* extend_transformations(transformations)
RECURSIVE Tree_extend_transformations(_, _, _)
Tree_extend_transformations(hp, tr, ops) ==
    IF ops = <<>> THEN TreeRet(TRUE, hp, tr, <<>>)
    ELSE LET r == Tree_append_transformation(hp, tr, Head(ops), TRUE) IN
         IF r.ok THEN Tree_extend_transformations(r.heap, r.tree, Tail(ops)) ELSE r

\* undo_last_transformation(): for x in self._transformed_structures: x.undo...
RECURSIVE Tree_undo_last_transformation(_, _, _)
Tree_undo_last_transformation(hp, tr, i) ==
    IF i > Len(tr) THEN TreeRet(TRUE, hp, tr, <<>>)
    ELSE LET r == TS_undo_last_transformation(hp[tr[i]]) IN
         IF ~r.ok THEN TreeRet(FALSE, hp, tr, <<>>)
         ELSE Tree_undo_last_transformation([hp EXCEPT ![tr[i]] = r.ts], tr, i + 1)

\* redo_next_transformation(): for x in self._transformed_structures: x.redo...
RECURSIVE Tree_redo_next_transformation(_, _, _)
Tree_redo_next_transformation(hp, tr, i) ==
    IF i > Len(tr) THEN TreeRet(TRUE, hp, tr, <<>>)
    ELSE LET r == TS_redo_next_transformation(hp[tr[i]]) IN
         IF ~r.ok THEN TreeRet(FALSE, [hp EXCEPT ![tr[i]] = r.ts], tr, <<>>)
         ELSE Tree_redo_next_transformation([hp EXCEPT ![tr[i]] = r.ts], tr, i + 1)

\* __len__()
Tree_len(tr) == Len(tr)

\* x.__getitem__(*args) on a member x: the method takes one argument besides
\* the object it is bound to, and a call with any other number of arguments
\* raises TypeError before the body runs.
TS_getitem_call(ts, args) ==
    IF Len(args) # 1
    THEN [ok |-> FALSE, err |-> "TypeError", v |-> Nothing]
    ELSE LET r == TS_getitem(ts, args[1]) IN
         [ok |-> r.ok, err |-> IF r.ok THEN "none" ELSE "IndexError", v |-> r.out.v]

\* The result of a query on the tree: the list built, or the error of the
\* first member whose call raised.
TreeQRet(calls) ==
    IF \A i \in 1 .. Len(calls) : calls[i].ok
    THEN [ok |-> TRUE, err |-> "none", results |-> [i \in 1 .. Len(calls) |-> calls[i].v]]
    ELSE LET first == CHOOSE i \in 1 .. Len(calls) :
                          ~calls[i].ok /\ \A j \in 1 .. (i - 1) : calls[j].ok
         IN [ok |-> FALSE, err |-> calls[first].err, results |-> <<>>]

\* __getitem__(index): [x.__getitem__(self, index) for x in ...]
Tree_getitem(hp, tr, index) ==
    TreeQRet([i \in 1 .. Len(tr) |-> TS_getitem_call(hp[tr[i]], <<"self", index>>)])

\* get_vasp_input(vasp_input_set, generate_potcar):
\* [x.__getitem__(self, vasp_input_set, generate_potcar) for x in ...]
Tree_get_vasp_input(hp, tr, generate_potcar) ==
    TreeQRet([i \in 1 .. Len(tr) |->
                 TS_getitem_call(hp[tr[i]], <<"self", "vasp_input_set", generate_potcar>>)])

\* The optional argument histories: None, or the list handed over.
None == [given |-> FALSE, v |-> <<>>]
Given(h) == [given |-> TRUE, v |-> h]

\* "if histories": None and the empty list are both false.
Truthy(histories) == histories.given /\ Len(histories.v) > 0

\* The loops of __init__: one new object per structure, with histories[i],
\* or with None when histories = <<>>.
RECURSIVE Tree_init_loop(_, _, _, _, _)
Tree_init_loop(hp, structures_list, transformations, histories, i) ==
    IF i > Len(structures_list)
    THEN TreeRet(TRUE, hp, [k \in 1 .. Len(hp) |-> k], <<>>)
    ELSE LET r == TS_init(One(structures_list[i]), transformations,
                          IF histories = <<>> THEN <<>> ELSE histories[i])
         IN
         IF ~r.ok THEN TreeRet(FALSE, <<>>, <<>>, <<>>)
         ELSE Tree_init_loop(Append(hp, r.ts), structures_list, transformations,
                             histories, i + 1)

\* __init__(structures_list, transformations, histories)
Tree_init(structures_list, transformations, histories) ==
    IF Truthy(histories)
    THEN IF Len(structures_list) # Len(histories.v)
         THEN TreeRet(FALSE, <<>>, <<>>, <<>>)
         ELSE Tree_init_loop(<<>>, structures_list, transformations, histories.v, 1)
    ELSE Tree_init_loop(<<>>, structures_list, transformations, <<>>, 1)

\* ------------------------------------------------------ inputs of the model
Sources == {"P1", "P2"}
SeedOps == {"inc", "picky"}
StepSet == {Step(t, a) : t \in SeedOps, a \in Arts}

\* The histories handed to a constructor: None (<<>>), or a source followed
\* by at most MaxSeed steps.  Nothing checks that a step's result is the
\* next step's input_structure.
HistoriesOf(src) ==
    {<<>>} \cup UNION {{<<src>> \o h : h \in [1 .. k -> StepSet]} : k \in 0 .. MaxSeed}

InitTransformations == {<<>>, <<"inc">>}

\* The input of the constructor of a tree: up to MaxMembers structures, each
\* the successor of the one before it; the
\* histories are None, an empty list, or a list of m histories in which the
\* first carries k steps that lead to the first structure and the others only
\* their source.
TreeStructureLists ==
    {[i \in 1 .. m |-> (a + i - 1) % NArt] : a \in Arts, m \in 0 .. MaxMembers}
TreeInitTransformations == {<<>>, <<"inc">>, <<"split">>, <<"picky">>}
SourceOf(i) == IF i = 1 THEN "P1" ELSE "P2"
SeedFor(i, s, k) ==
    IF i = 1
    THEN <<SourceOf(i)>> \o [j \in 1 .. k |-> Step("inc", (s + NArt * k - k + j - 1) % NArt)]
    ELSE <<SourceOf(i)>>
TreeHistories(structures_list) ==
    {None, Given(<<>>)} \cup
    {Given([i \in 1 .. m |-> SeedFor(i, IF i <= Len(structures_list)
                                        THEN structures_list[i] ELSE 0, k)]) :
        m \in 1 .. (MaxMembers + 1), k \in 0 .. MaxSeed}
TreeExtendArgs == {<<>>, <<"inc", "split">>, <<"inc", "picky">>}
ExtendArgs == {<<>>, <<"inc", "inc">>, <<"inc", "picky">>, <<"picky", "inc">>}

\* The strings handed to the adapters.
Texts == {<<>>, <<"a">>, <<"'", "a", "'">>, <<"a", "\"", "'">>}
CifData == {("_cell_length_a" :> "5"),
            ("_cell_length_a" :> "5") @@ ("_database_code_ICSD" :> "1234")}
CifStrings ==
    [text : Texts, parses : BOOLEAN, cif_data : CifData,
     structures : {<<>>} \cup {<<a>> : a \in Arts} \cup {<<a, (a + 1) % NArt>> : a \in Arts}]
PoscarStrings == [text : Texts, parses : BOOLEAN, true_names : BOOLEAN, struct : Arts]
AdapterTransformations == {<<>>, <<"inc">>, <<"picky">>}

\* ------------------------------------------------------------------ state
VARIABLES
    ts,      \* a TransformedStructure used on its own
    last,    \* the last call on ts: what it was, whether it returned, ts before it
    run,     \* the streak of consecutive undo/redo calls ending at the last call
    tree,    \* TransformedStructureTree._transformed_structures: object references
    heap,    \* the TransformedStructure objects the tree refers to
    tlast,   \* the last call on the tree
    out      \* the result of a query on ts that the caller holds, or NoOut

vars == <<ts, last, run, tree, heap, tlast, out>>
tsvars == <<ts, last, run, out>>
treevars == <<tree, heap, tlast>>

Call(op, ok, pre, t, clear_redo, ops) ==
    [op |-> op, ok |-> ok, pre |-> pre, t |-> t, clear_redo |-> clear_redo, ops |-> ops]

NoRun(cur) == [base |-> cur, calls |-> <<>>, open |-> FALSE]

\* A behaviour of Spec records the streaks of undo/redo calls; a behaviour of
\* SpecQuery records none (run = Unwatched from the start to the end) and has
\* the queries.  A query between two calls ends a streak and changes no
\* object, so that the two go through the same objects.
Unwatched == [base |-> NoTS, calls |-> <<"unwatched">>, open |-> FALSE]
After(cur) == IF run = Unwatched THEN Unwatched ELSE NoRun(cur)

NoArgs == [structures_list |-> <<>>, transformations |-> <<>>, histories |-> None]

TreeCall(op, ok, t, clear_redo, ops, pre_tree, pre_heap, applied, args) ==
    [op |-> op, ok |-> ok, t |-> t, clear_redo |-> clear_redo, ops |-> ops,
     pre_tree |-> pre_tree, pre_heap |-> pre_heap, applied |-> applied, args |-> args,
     n |-> IF op \in {"init", "none"} THEN 0 ELSE tlast.n + 1]

NoTreeCall == TreeCall("none", TRUE, "none", TRUE, <<>>, <<>>, <<>>, <<>>, NoArgs)

\* ------------------------------------- TransformedStructure used on its own
Construct(watched) ==
    /\ \E s \in Arts, trs \in InitTransformations, h \in HistoriesOf("P1") :
          LET r == TS_init(One(s), trs, h) IN
          /\ r.ok
          /\ ts = r.ts
          /\ last = Call("init", TRUE, r.ts, "none", TRUE, trs)
          /\ run = IF watched THEN NoRun(r.ts) ELSE Unwatched
    /\ out = NoOut
    /\ tree = <<>>
    /\ heap = <<>>
    /\ tlast = NoTreeCall

Init == Construct(TRUE)

\* What the object may still grow to: every entry of the redo list can
\* come back as a structure.
Budget(x) == Len(x.structures) + Len(x.redo_trans)

AppendTransformation ==
    \E t \in Ops, clear_redo \in BOOLEAN :
        LET r == TS_append_transformation(ts, t, clear_redo) IN
        /\ out = NoOut
        /\ Budget(ts) < MaxLen
        /\ ts' = r.ts
        /\ last' = Call("append", r.ok, ts, t, clear_redo, <<>>)
        /\ run' = After(r.ts)
        /\ out' = NoOut
        /\ UNCHANGED treevars

ExtendTransformations ==
    \E ops \in ExtendArgs :
        LET r == TS_extend_transformations(ts, ops) IN
        /\ out = NoOut
        /\ Budget(ts) + Len(ops) <= MaxLen
        /\ ts' = r.ts
        /\ last' = Call("extend", r.ok, ts, "none", TRUE, ops)
        /\ run' = After(r.ts)
        /\ out' = NoOut
        /\ UNCHANGED treevars

\* The streak after an undo ("u") or a redo ("r"): a call that raised ("u!",
\* "r!") ends it; a call that returned continues an open streak or starts one
\* of its own, so that a streak can start in any state.  An unwatched
\* behaviour stays unwatched.
Continue(c) == [run EXCEPT !.calls = Append(@, c)]
Restart(c) == [base |-> ts, calls |-> <<c>>, open |-> TRUE]
Closed(c, cur) ==
    IF run.open /\ Len(run.calls) < MaxRun
    THEN [run EXCEPT !.calls = Append(@, c), !.open = FALSE]
    ELSE After(cur)

UndoLastTransformation ==
    LET r == TS_undo_last_transformation(ts) IN
    /\ out = NoOut
    /\ ts' = r.ts
    /\ last' = Call("undo", r.ok, ts, "none", TRUE, <<>>)
    /\ \/ ~r.ok /\ run' = Closed("u!", r.ts)
       \/ r.ok /\ run # Unwatched /\ run' = Restart("u")
       \/ r.ok /\ run.open /\ Len(run.calls) < MaxRun /\ run' = Continue("u")
       \/ r.ok /\ run = Unwatched /\ run' = Unwatched
    /\ out' = NoOut
    /\ UNCHANGED treevars

RedoNextTransformation ==
    LET r == TS_redo_next_transformation(ts) IN
    /\ out = NoOut
    /\ ts' = r.ts
    /\ last' = Call("redo", r.ok, ts, "none", FALSE, <<>>)
    /\ \/ ~r.ok /\ run' = Closed("r!", r.ts)
       \/ r.ok /\ run # Unwatched /\ run' = Restart("r")
       \/ r.ok /\ run.open /\ Len(run.calls) < MaxRun /\ run' = Continue("r")
       \/ r.ok /\ run = Unwatched /\ run' = Unwatched
    /\ out' = NoOut
    /\ UNCHANGED treevars

Next ==
    \/ AppendTransformation
    \/ ExtendTransformations
    \/ UndoLastTransformation
    \/ RedoNextTransformation

Spec == Init /\ [][Next]_vars

\* ------------------------------------------- the same, with the queries
InitQuery == Construct(FALSE)

\* The caller holds the result of one query at a time and lets go of it
\* (Release) before the next call on the object.  For a query last says no
\* more than that it was one; out says which.
\* A query: the object as the call left it, and what the caller got.
Query(r) ==
    /\ run = Unwatched
    /\ out = NoOut
    /\ ts' = r.ts
    /\ last' = Call("query", r.ok, ts, "none", TRUE, <<>>)
    /\ out' = Held(r, ts)
    /\ UNCHANGED <<run, treevars>>

Release ==
    /\ out # NoOut
    /\ out' = NoOut
    /\ UNCHANGED <<ts, last, run, treevars>>

ToDict == Query(TS_to_dict(ts))

\* Indexes from one below -len to len.
GetItem ==
    \E index \in (0 - Len(ts.structures) - 1) .. Len(ts.structures) :
        Query(TS_getitem(ts, index))

GetLen == Query(QRet(TRUE, ts, Out("len", 0, [len |-> TS_len(ts)])))

GetStructures == Query(TS_structures(ts))

GetTransformations == Query(TS_transformations(ts))

GetFinalStructure == Query(TS_final_structure(ts))

GetVaspInput ==
    \E generate_potcar \in BOOLEAN :
        Query(TS_get_vasp_input(ts, generate_potcar))

\* The caller changes the list an accessor returned: list.pop() or
\* list.append(x) with x an entry already in it.  The object changes with
\* it when the list is the object's own.
ChangeReturned ==
    \E pop \in BOOLEAN :
        LET list == out.v[out.of]
            new == IF pop THEN Front(list) ELSE Append(list, Head(list))
        IN
        /\ run = Unwatched
        /\ out.of \in {"structures", "transformations"}
        /\ ~out.changed
        /\ list # <<>>
        /\ ts' = IF out.v.shared THEN [ts EXCEPT ![out.of] = new] ELSE ts
        /\ out' = [out EXCEPT !.v[out.of] = new, !.changed = TRUE]
        /\ UNCHANGED <<last, run, treevars>>

\* from_dict(to_dict): the program goes on with the object read back.
FromDict ==
    LET d == TS_to_dict(ts)
        r == TS_from_dict(d.out.v)
    IN
    /\ run = Unwatched
    /\ out = NoOut
    /\ d.ok
    /\ ts' = r.ts
    /\ last' = Call("from_dict", r.ok, ts, "none", TRUE, <<>>)
    /\ UNCHANGED <<run, out, treevars>>

NextQuery ==
    \/ AppendTransformation
    \/ ExtendTransformations
    \/ UndoLastTransformation
    \/ RedoNextTransformation
    \/ ToDict
    \/ FromDict
    \/ GetItem
    \/ GetLen
    \/ GetStructures
    \/ GetTransformations
    \/ GetFinalStructure
    \/ GetVaspInput
    \/ ChangeReturned
    \/ Release

SpecQuery == InitQuery /\ [][NextQuery]_vars

\* ------------------------------------------- objects built by an adapter
\* The call of an adapter's constructor, with the string handed over.
AdapterCall(op, r, input, transformations) ==
    [op |-> op, ok |-> r.ok, pre |-> r.ts, t |-> "none", clear_redo |-> TRUE,
     ops |-> transformations, input |-> input, err |-> r.err]

InitAdapter ==
    /\ \E transformations \in AdapterTransformations :
          \/ \E cif_string \in CifStrings :
                LET r == Cif_init(cif_string, transformations) IN
                /\ ts = r.ts
                /\ last = AdapterCall("cif", r, cif_string, transformations)
          \/ \E poscar_string \in PoscarStrings :
                LET r == Poscar_init(poscar_string, transformations) IN
                /\ ts = r.ts
                /\ last = AdapterCall("poscar", r, poscar_string, transformations)
    /\ run = Unwatched
    /\ out = NoOut
    /\ tree = <<>>
    /\ heap = <<>>
    /\ tlast = NoTreeCall

\* A constructor that raised leaves no object to call.
NextAdapter == (last.op \notin {"cif", "poscar"} \/ last.ok) /\ Next

SpecAdapter == InitAdapter /\ [][NextAdapter]_vars

\* ------------------------------------------------ TransformedStructureTree
\* A constructor that raised leaves no tree to call; tlast.n counts the calls
\* made on the tree.
Built == (tlast.op # "init" \/ tlast.ok) /\ tlast.n < MaxCalls

InitTree ==
    /\ ts = NoTS
    /\ last = Call("none", TRUE, NoTS, "none", TRUE, <<>>)
    /\ run = NoRun(NoTS)
    /\ out = NoOut
    /\ \E structures_list \in TreeStructureLists,
          transformations \in TreeInitTransformations :
          \E histories \in TreeHistories(structures_list) :
             LET r == Tree_init(structures_list, transformations, histories) IN
             /\ heap = r.heap
             /\ tree = r.tree
             /\ tlast = TreeCall("init", r.ok, "none", TRUE, transformations, <<>>, <<>>,
                                 <<>>, [structures_list |-> structures_list,
                                        transformations |-> transformations,
                                        histories |-> histories])

Room(n) ==
    /\ Len(tree) < MaxTree
    /\ \A id \in 1 .. Len(heap) : Budget(heap[id]) + n <= MaxLen

TreeAppendTransformation ==
    \E t \in Ops, clear_redo \in BOOLEAN :
        LET r == Tree_append_transformation(heap, tree, t, clear_redo) IN
        /\ Built
        /\ Room(1)
        /\ heap' = r.heap
        /\ tree' = r.tree
        /\ tlast' = TreeCall("append", r.ok, t, clear_redo, <<>>, tree, heap,
                             r.applied, NoArgs)
        /\ UNCHANGED tsvars

TreeExtendTransformations ==
    \E ops \in TreeExtendArgs :
        LET r == Tree_extend_transformations(heap, tree, ops) IN
        /\ Built
        /\ Room(Len(ops))
        /\ heap' = r.heap
        /\ tree' = r.tree
        /\ tlast' = TreeCall("extend", r.ok, "none", TRUE, ops, tree, heap, <<>>, NoArgs)
        /\ UNCHANGED tsvars

TreeUndoLastTransformation ==
    LET r == Tree_undo_last_transformation(heap, tree, 1) IN
    /\ Built
    /\ heap' = r.heap
    /\ tree' = r.tree
    /\ tlast' = TreeCall("undo", r.ok, "none", TRUE, <<>>, tree, heap, <<>>, NoArgs)
    /\ UNCHANGED tsvars

TreeRedoNextTransformation ==
    LET r == Tree_redo_next_transformation(heap, tree, 1) IN
    /\ Built
    /\ heap' = r.heap
    /\ tree' = r.tree
    /\ tlast' = TreeCall("redo", r.ok, "none", FALSE, <<>>, tree, heap, <<>>, NoArgs)
    /\ UNCHANGED tsvars

\* A query on the tree: tree and heap stay, tlast says what was asked and
\* what came back; a query is not counted as a call.
TreeQuery(op, r, index, generate_potcar) ==
    /\ Built
    /\ tlast' = [op |-> op, ok |-> r.ok, t |-> "none", clear_redo |-> TRUE, ops |-> <<>>,
                 pre_tree |-> tree, pre_heap |-> heap, applied |-> <<>>, args |-> NoArgs,
                 n |-> tlast.n, index |-> index, generate_potcar |-> generate_potcar,
                 err |-> r.err, results |-> r.results]
    /\ UNCHANGED <<tree, heap, tsvars>>

TreeIndexes == 0 .. 1

TreeGetItem ==
    \E index \in TreeIndexes :
        TreeQuery("getitem", Tree_getitem(heap, tree, index), index, TRUE)

TreeGetVaspInput ==
    \E generate_potcar \in BOOLEAN :
        TreeQuery("get_vasp_input", Tree_get_vasp_input(heap, tree, generate_potcar),
                  0, generate_potcar)

NextTree ==
    \/ TreeAppendTransformation
    \/ TreeExtendTransformations
    \/ TreeUndoLastTransformation
    \/ TreeRedoNextTransformation

SpecTree == InitTree /\ [][NextTree]_vars

\* The same, with the queries on the tree.
NextTreeQuery ==
    \/ TreeAppendTransformation
    \/ TreeExtendTransformations
    \/ TreeUndoLastTransformation
    \/ TreeRedoNextTransformation
    \/ TreeGetItem
    \/ TreeGetVaspInput

SpecTreeQuery == InitTree /\ [][NextTreeQuery]_vars

\* ------------------------------- either use: an object on its own, or a tree
\* A behaviour is one of SpecQuery or one of SpecTree: last.op = "none" says
\* that there is no object on its own, tlast.op = "none" that there is no
\* tree.
InitAll == InitQuery \/ InitTree

NextAll ==
    \/ (tlast.op = "none" /\ NextQuery)
    \/ (last.op = "none" /\ NextTree)

SpecAll == InitAll /\ [][NextAll]_vars

\* ---------------------------------------------------- vocabulary of claims
\* How many times c stands at the head of s.
RECURSIVE Leading(_, _)
Leading(s, c) ==
    IF s # <<>> /\ Head(s) = c THEN 1 + Leading(Tail(s), c) ELSE 0

\* Step i of x was made by applying its transformation: structures[i + 1]
\* is what transformations[i] returns for structures[i].
StepApplied(x, i) ==
    x.structures[i + 1] = apply_transformation(x.transformations[i], x.structures[i])

SameHistory(x, y) ==
    /\ x.structures = y.structures
    /\ x.transformations = y.transformations

\* ------------------------------------------------------------------- C1
\* C1: after construction (seeded or not, with or without initial
\* transformations) and any calls of append, extend, undo and redo, returned
\* or raised, there is one transformation less than there are structures,
\* len() is the number of structures, and there is at least one structure.
C1_LengthInvariant ==
    /\ Len(ts.transformations) = Len(ts.structures) - 1
    /\ TS_len(ts) = Len(ts.structures)
    /\ Len(ts.structures) >= 1

\* A seeded object after an extend that raised half way.
C1_Witness ==
    /\ last.op = "extend" /\ ~last.ok
    /\ ts.source = "P1"
    /\ Len(ts.structures) = Len(last.pre.structures) + 1
    /\ Len(ts.redo_trans) = 0 /\ Len(last.pre.redo_trans) > 0

C3_UndoUntilEmpty ==
    /\ last.op = "undo" => (last.ok <=> Len(last.pre.transformations) > 0)
    /\ \A j \in 1 .. MaxRun :
          /\ run.calls = Rep("u", j) =>
                /\ j <= Len(run.base.transformations)
                /\ Len(ts.transformations) = Len(run.base.transformations) - j
          /\ run.calls = Rep("u", j - 1) \o <<"u!">> =>
                j - 1 = Len(run.base.transformations)

\* Two transformations, one of them rehydrated: two undos return, the third
\* raises.
C3_Witness ==
    /\ run.calls = <<"u", "u", "u!">>
    /\ run.base.source = "P1"
    /\ Len(run.base.transformations) = 2
    /\ last.op = "undo" /\ ~last.ok

\* ------------------------------------------------------------------- C4
\* C4: an append with clear_redo = True that returns, on its own or inside
\* extend, leaves the redo list empty, and a redo called next raises; after
\* an append the redo list is non-empty only if clear_redo was False.
C4_Cleared ==
    \/ (last.op = "append" /\ last.ok /\ last.clear_redo)
    \/ (last.op = "extend" /\ Len(ts.transformations) > Len(last.pre.transformations))

C4_AppendClearsRedo ==
    /\ [](C4_Cleared => ts.redo_trans = <<>>)
    /\ []((last.op = "append" /\ last.ok /\ ts.redo_trans # <<>>) => ~last.clear_redo)
    /\ [][(C4_Cleared /\ last'.op = "redo") => ~last'.ok]_vars

\* An append with clear_redo = True that emptied a non-empty redo list.
C4_Witness ==
    /\ last.op = "append" /\ last.ok /\ last.clear_redo
    /\ Len(last.pre.redo_trans) >= 1
    /\ ts.redo_trans = <<>>
    /\ ~TS_redo_next_transformation(ts).ok

\* ------------------------------------------------------------------- C5
\* C5 as stated: with transformations T1..Tn and k <= n, k undos then k redos
\* all return, the j-th redo re-applies T(n-k+j), at the end the
\* transformations are T1..Tn and the redo list is empty, and one more redo
\* raises.
C5_RedoReplaysInOrder_Original ==
    LET n == Len(run.base.transformations)
        k == Leading(run.calls, "u")
        rest == SubSeq(run.calls, k + 1, Len(run.calls))
        j == Leading(rest, "r")
        tail == SubSeq(rest, j + 1, Len(rest))
    IN
    k >= 1 =>
        /\ (j <= k /\ tail = <<>>) =>
              /\ ts.transformations = SubSeq(run.base.transformations, 1, n - k + j)
              /\ (j = k => ts.redo_trans = <<>>)
        /\ ~(j < k /\ tail = <<"r!">>)
        /\ ~(j = k + 1 /\ tail = <<>>)

\* C5 amended: k undos return; the j-th redo after them replays T(n-k+j) and
\* returns when T(n-k+j) accepts the structure it is replayed on, as it does
\* when the steps n-k+1 .. n-k+j were each made by applying them; after j redos the
\* transformations are T1..T(n-k+j) and the redo list is the list before the
\* undos followed by Tn..T(n-k+j+1); after k redos it is the list before the
\* undos, and one more redo raises when that list was empty.
C5_RedoReplaysInOrder ==
    LET b == run.base
        n == Len(b.transformations)
        k == Leading(run.calls, "u")
        rest == SubSeq(run.calls, k + 1, Len(run.calls))
        j == Leading(rest, "r")
        tail == SubSeq(rest, j + 1, Len(rest))
    IN
    k >= 1 =>
        /\ (j <= k /\ tail = <<>>) =>
              /\ k <= n
              /\ ts.transformations = SubSeq(b.transformations, 1, n - k + j)
              /\ ts.redo_trans =
                    b.redo_trans \o Reverse(SubSeq(b.transformations, n - k + j + 1, n))
              /\ (j >= 1 => Last(ts.transformations) = b.transformations[n - k + j])
        /\ (j < k /\ tail = <<"r!">>) =>
              /\ \E i \in (n - k + 1) .. (n - k + j + 1) : ~StepApplied(b, i)
              /\ apply_transformation(b.transformations[n - k + j + 1],
                                      Last(last.pre.structures)).kind = "raise"
        /\ (j = k + 1 /\ tail = <<>>) => b.redo_trans # <<>>
        /\ (j = k /\ tail = <<"r!">>) =>
              (b.redo_trans = <<>> <=> last.pre.redo_trans = <<>>)

\* Two undos, two redos and a third redo that raises on the empty list.
C5_Witness ==
    /\ run.calls = <<"u", "u", "r", "r", "r!">>
    /\ run.base.redo_trans = <<>>
    /\ ts.transformations = run.base.transformations
    /\ ts.redo_trans = <<>>
    /\ run.base.transformations[Len(run.base.transformations)]
          # run.base.transformations[Len(run.base.transformations) - 1]

\* ------------------------------------------------------------------- C6
\* C6: append_transformation raises exactly when the transformation rejects
\* the current structure, and then leaves structures, transformations, redo
\* list and source as they were; otherwise it appends exactly one structure
\* and exactly one transformation.
C6_AppendTransactional ==
    last.op = "append" =>
        LET new_s == apply_transformation(last.t, Last(last.pre.structures)) IN
        /\ last.ok <=> new_s.kind # "raise"
        /\ ~last.ok => ts = last.pre
        /\ last.ok =>
              /\ ts.structures = Append(last.pre.structures, new_s)
              /\ ts.transformations = Append(last.pre.transformations, last.t)
              /\ ts.source = last.pre.source

\* A rejected append on an object with history and a non-empty redo list.
C6_Witness ==
    /\ last.op = "append" /\ ~last.ok
    /\ Len(last.pre.transformations) >= 1
    /\ Len(last.pre.redo_trans) >= 1
    /\ last.pre.source = "P1"
    /\ ts = last.pre

\* ----------------------------------------- vocabulary of the tree's claims
Member(p) == heap[tree[p]]
PreMember(i) == tlast.pre_heap[tlast.pre_tree[i]]

\* What the transformation of the last append returned for member i.
Returned(i) == apply_transformation(tlast.t, tlast.applied[i].s)
IsSplit(i) == Returned(i).kind = "seq"

\* Members advanced in place keep their place; the successors of the split
\* members follow them, in the order of the members they replace.
RECURSIVE SuccessorsBefore(_)
SuccessorsBefore(i) ==
    IF i <= 1 THEN 0
    ELSE SuccessorsBefore(i - 1)
         + (IF IsSplit(i - 1) THEN Len(Returned(i - 1).v) ELSE 0)
KeptBy(n) == Cardinality({i \in 1 .. n : ~IsSplit(i)})
SuccessorPos(i, j) == KeptBy(Len(tlast.pre_tree)) + SuccessorsBefore(i) + j

Extends(x, old) ==
    /\ Len(x.structures) > Len(old.structures)
    /\ SubSeq(x.structures, 1, Len(old.structures)) = old.structures
    /\ SubSeq(x.transformations, 1, Len(old.transformations)) = old.transformations

\* ------------------------------------------------------------------- C7
\* C7: when the transformation returns k >= 1 structures B1..Bk for a
\* member of the tree, the member is replaced by k members, the j-th with the
\* member's structures followed by Bj and its transformations followed by the
\* transformation: one step more on every branch.
C7_SplitSuccessors ==
    (tlast.op = "append" /\ tlast.ok) =>
        \A i \in 1 .. Len(tlast.pre_tree) :
            (IsSplit(i) /\ Len(Returned(i).v) >= 1) =>
                \A j \in 1 .. Len(Returned(i).v) :
                    LET p == SuccessorPos(i, j) IN
                    /\ p <= Len(tree)
                    /\ Member(p).structures =
                          Append(PreMember(i).structures, One(Returned(i).v[j]))
                    /\ Member(p).transformations =
                          Append(PreMember(i).transformations, tlast.t)

\* ------------------------------------------------------------------- C8
\* C8: one append on the tree applies the transformation exactly once to the
\* structure each member had before the call, skips no member, drops a
\* member only when the transformation returned an empty list for it, and
\* adds the transformation at most once to any member's history.
C8_AppliedOncePerMember ==
    (tlast.op = "append" /\ tlast.ok) =>
        /\ Len(tlast.applied) = Len(tlast.pre_tree)
        /\ \A i \in 1 .. Len(tlast.pre_tree) :
              /\ tlast.applied[i].pos = i
              /\ tlast.applied[i].s = Last(PreMember(i).structures)
              /\ Returned(i) # Many(<<>>) =>
                    \E p \in 1 .. Len(tree) : Extends(Member(p), PreMember(i))
        /\ \A p \in 1 .. Len(tree) :
              Len(Member(p).transformations)
                 = Len(tlast.pre_heap[tree[p]].transformations) + 1

\* ------------------------------------------------------------------- C9
\* C9: no two positions of the tree hold the same object, so that no
\* member's structures, transformations or redo list are another member's.
C9_MembersIndependent ==
    \A p, q \in 1 .. Len(tree) : p # q => tree[p] # tree[q]

\* ------------------------------------------------------------------ C10
\* C10: an append on the tree that raises leaves the number of members and
\* every member's structures and transformations as they were.
C10_AppendAllOrNothing ==
    (tlast.op = "append" /\ ~tlast.ok) =>
        /\ Tree_len(tree) = Tree_len(tlast.pre_tree)
        /\ \A i \in 1 .. Len(tree) : SameHistory(Member(i), PreMember(i))

\* ------------------------------------------------------------------ C11
\* C11: when the transformation returns a single structure for every
\* member, an append on the tree leaves the number, identity and order of the
\* members as they were and leaves every member as
\* TransformedStructure.append_transformation(transformation, clear_redo)
\* would have left it: one structure and one transformation more.
C11_OneToOneAppend ==
    (/\ tlast.op = "append" /\ tlast.ok
     /\ \A i \in 1 .. Len(tlast.applied) : Returned(i).kind = "one") =>
        /\ Tree_len(tree) = Tree_len(tlast.pre_tree)
        /\ tree = tlast.pre_tree
        /\ \A i \in 1 .. Len(tree) :
              Member(i) = TS_append_transformation(PreMember(i), tlast.t,
                                                   tlast.clear_redo).ts

\* ------------------------------------------------------------------ C12
\* C12: a tree constructed from structures with the initial transformation
\* list [T_split], T_split returning the structures B1..Bk for a structure A,
\* has k members for A, the j-th with the one transformation T_split, first
\* structure A and last structure Bj: the constructor fans out as
\* append_transformation does.  (split returns two structures.)
C12_ConstructorFansOut ==
    (/\ tlast.op = "init" /\ tlast.ok
     /\ ~Truthy(tlast.args.histories)
     /\ tlast.args.transformations = <<"split">>) =>
        LET sl == tlast.args.structures_list
            B(i) == apply_transformation("split", One(sl[i])).v
        IN
        /\ Tree_len(tree) = 2 * Len(sl)
        /\ \A i \in 1 .. Len(sl) : \A j \in 1 .. Len(B(i)) :
              \E p \in 1 .. Len(tree) :
                  /\ Member(p).transformations = <<"split">>
                  /\ Member(p).structures = <<One(sl[i]), One(B(i)[j])>>

\* ------------------------------------------------------------------ C13
\* C13: undo and redo on the tree are broadcast.  When every member has a
\* transformation to undo (an entry to redo), the call returns, the members
\* are the same and each has exactly one step less (more); when some member
\* has none, the call raises.
C13_UndoRedoBroadcast ==
    LET n == Len(tlast.pre_tree)
        Steps(x) == Len(x.transformations)
    IN
    /\ tlast.op = "undo" =>
          IF \A i \in 1 .. n : Steps(PreMember(i)) > 0
          THEN /\ tlast.ok
               /\ tree = tlast.pre_tree
               /\ \A i \in 1 .. n :
                     /\ Steps(Member(i)) = Steps(PreMember(i)) - 1
                     /\ Len(Member(i).structures) = Len(PreMember(i).structures) - 1
          ELSE ~tlast.ok
    /\ tlast.op = "redo" =>
          IF \A i \in 1 .. n : Len(PreMember(i).redo_trans) > 0
          THEN /\ tlast.ok
               /\ tree = tlast.pre_tree
               /\ \A i \in 1 .. n :
                     /\ Steps(Member(i)) = Steps(PreMember(i)) + 1
                     /\ Len(Member(i).structures) = Len(PreMember(i).structures) + 1
          ELSE ~tlast.ok

\* ------------------------------------------------------------------ C14
\* C14: the constructor of a tree given a list of histories whose length,
\* zero included, is not the number of structures raises and builds no tree;
\* with equal lengths a constructor that returns has built one member per
\* structure, member i with the source and the steps of histories[i].
C14_HistoriesLength ==
    (tlast.op = "init" /\ tlast.args.histories.given) =>
        LET sl == tlast.args.structures_list
            hs == tlast.args.histories.v
        IN
        IF Len(hs) # Len(sl)
        THEN ~tlast.ok /\ Tree_len(tree) = 0
        ELSE tlast.ok =>
                /\ Tree_len(tree) = Len(sl)
                /\ \A i \in 1 .. Len(sl) :
                      LET seeded == TS_init(One(sl[i]), <<>>, hs[i]).ts IN
                      /\ Member(i).source = hs[i][1]
                      /\ Extends(Member(i), [seeded EXCEPT !.structures = Front(@)])

\* ------------------------------------------------------------------ C15
\* C15: in every state reached by construction and any calls of append,
\* extend, undo and redo, of an object whose structures are single structures
\* (so that to_dict returns), from_dict(to_dict) returns an object with the
\* same final structure, the same transformations in the same order, the
\* same structures and the same source.
C15_RoundTrip ==
    LET d == TS_to_dict(ts) IN
    /\ d.ok =>
          LET r == TS_from_dict(d.out.v) IN
          /\ r.ok
          /\ Last(r.ts.structures) = Last(ts.structures)
          /\ r.ts.transformations = ts.transformations
          /\ r.ts.structures = ts.structures
          /\ r.ts.source = ts.source
    /\ last.op = "from_dict" =>
          /\ last.ok
          /\ Last(ts.structures) = Last(last.pre.structures)
          /\ SameHistory(ts, last.pre)
          /\ ts.source = last.pre.source

\* A seeded object with two different steps and an undone transformation,
\* read back.
C15_Witness ==
    /\ last.op = "from_dict" /\ last.ok
    /\ last.pre.source = "P1"
    /\ Len(last.pre.transformations) = 2
    /\ last.pre.transformations[1] # last.pre.transformations[2]
    /\ last.pre.structures[1] # last.pre.structures[2]
    /\ last.pre.redo_trans # <<>>
    /\ ts.redo_trans = <<>>
    /\ ts.structures = last.pre.structures

\* ------------------------------------------------------------------ C16
\* C16: to_dict of an object whose structures are single structures returns
\* the serialized final structure, the version, and a history of exactly
\* 1 + len(transformations) entries: first the source, then for every
\* transformation i its serialization with input_structure = the serialized
\* structure i it was applied to.  Entries of the redo list are not in it.
C16_ToDictShape ==
    LET r == TS_to_dict(ts)
        d == r.out.v
        n == Len(ts.transformations)
    IN
    /\ r.ok =>
          /\ d.structure = Structure_to_dict(Last(ts.structures))
          /\ d.version = version
          /\ Len(d.history) = 1 + n
          /\ d.history[1] = ts.source
          /\ \A i \in 1 .. n :
                d.history[i + 1] = Step(ts.transformations[i],
                                        Structure_to_dict(ts.structures[i]))
    /\ (out.of = "to_dict" /\ out.ok) => out.v = d

\* to_dict on an object with one transformation applied and one undone.
C16_Witness ==
    /\ out.of = "to_dict" /\ out.ok
    /\ Len(ts.transformations) = 1
    /\ Len(ts.redo_trans) = 1
    /\ ts.redo_trans[1] # ts.transformations[1]
    /\ Len(out.v.history) = 2
    /\ out.v.history[2] = Step(ts.transformations[1], Structure_to_dict(ts.structures[1]))

\* ------------------------------------------------------------------ C18
\* C18: __getitem__(i) returns (structures[i], transformations[0:i]) for
\* 0 <= i < len(structures) and raises for every other i, negative ones
\* included.
C18_GetItemRange ==
    out.of = "getitem" =>
        LET i == out.index IN
        IF 0 <= i /\ i < Len(ts.structures)
        THEN /\ out.ok
             /\ out.v = Snapshot(ts.structures[i + 1], SubSeq(ts.transformations, 1, i))
        ELSE ~out.ok

\* ------------------------------------------------------------------ C20
\* C20: final_structure, __getitem__, len, to_dict and the accessors
\* structures and transformations leave structures, transformations, redo
\* list and source as they were, and so does a change the caller makes to a
\* list an accessor returned.
C20_QueriesReadOnly ==
    /\ out.of \in {"final_structure", "getitem", "len", "to_dict", "structures",
                    "transformations"} => ts = out.pre
    /\ out.of = "final_structure" => out.v = Last(ts.structures)
    /\ out.of = "len" => out.v.len = Len(ts.structures)
    /\ (out.of \in {"structures", "transformations"} /\ ~out.changed) =>
          out.v[out.of] = ts[out.of]

\* The caller dropped the last entry of the list structures returned.
C20_Witness ==
    /\ out.of = "structures" /\ out.changed
    /\ Len(out.v.structures) = Len(ts.structures) - 1
    /\ Len(ts.transformations) >= 1
    /\ ts.redo_trans # <<>>
    /\ ts = out.pre

\* ------------------------------------------------------------------ C17
\* s2 is the result of applying t to s: what t returns for s, or one of the
\* structures of the list t returns for s.
Produces(t, s, s2) ==
    LET r == apply_transformation(t, s) IN
    \/ r = s2
    \/ (r.kind = "seq" /\ s2.kind = "one" /\ \E j \in 1 .. Len(r.v) : r.v[j] = s2.v[1])

AllApplied(x) ==
    \A i \in 1 .. Len(x.transformations) :
        Produces(x.transformations[i], x.structures[i], x.structures[i + 1])

\* C17: after any appends (one-to-one or one-to-many), undos and redos on a
\* tree built from consistent histories, in every member every structure
\* but the first is the result of applying the transformation before it to
\* the structure before it.
C17_StepsApplied ==
    \A p \in 1 .. Len(tree) : AllApplied(Member(p))

\* ------------------------------------------------------------------ C19
\* C19: the source of an object is fixed at construction.  No call of
\* append, extend, undo, redo, __getitem__ or to_dict, returning or raising,
\* changes it, on an object on its own or on a member of a tree; to_dict
\* gives it as history[0]; and after an append on a tree every successor of
\* a split member has the source of the member it replaces.
C19_SourceFixed ==
    /\ [][ts'.source = ts.source]_vars
    /\ [][\A id \in 1 .. Len(heap) : heap'[id].source = heap[id].source]_vars
    /\ [](TS_to_dict(ts).ok => TS_to_dict(ts).out.v.history[1] = ts.source)
    /\ []((out.of = "to_dict" /\ out.ok) => out.v.history[1] = out.pre.source)
    /\ []((tlast.op = "append" /\ tlast.ok) =>
            \A i \in 1 .. Len(tlast.pre_tree) :
                IsSplit(i) =>
                    \A j \in 1 .. Len(Returned(i).v) :
                        /\ SuccessorPos(i, j) <= Len(tree)
                        /\ Member(SuccessorPos(i, j)).source = PreMember(i).source)

\* A tree of two members with different sources, both split.
C19_Witness ==
    /\ tlast.op = "append" /\ tlast.ok
    /\ Len(tlast.pre_tree) = 2
    /\ IsSplit(1) /\ IsSplit(2)
    /\ PreMember(1).source = "P1" /\ PreMember(2).source = "P2"
    /\ Len(tree) = 4
    /\ Member(2).source = "P1" /\ Member(3).source = "P2"

\* ------------------------------------------------------------------ C21
\* C21: in every state of an object whose structures are single structures
\* (so that to_dict returns), get_vasp_input returns a bundle whose generated
\* files are written from the final structure and whose entry
\* 'transformations.json' is json.dumps(to_dict) of that state: read back
\* with json.loads and from_dict it gives an object with the same final
\* structure and the same transformations.  The call changes nothing.
C21_BundleOf(x, generate_potcar) ==
    LET r == TS_get_vasp_input(x, generate_potcar)
        b == r.out.v.bundle
        td == TS_to_dict(x)
    IN
    /\ r.ok <=> td.ok
    /\ r.ts = x
    /\ r.ok =>
          /\ "transformations.json" \in DOMAIN b
          /\ \A name \in DOMAIN b \ {"transformations.json"} : b[name] = Last(x.structures)
          /\ DOMAIN b # {"transformations.json"}
          /\ json_loads(b["transformations.json"]) = td.out.v
          /\ LET back == TS_from_dict(json_loads(b["transformations.json"])) IN
             /\ back.ok
             /\ Last(back.ts.structures) = Last(x.structures)
             /\ back.ts.transformations = x.transformations

C21_BundleSelfDescribing ==
    /\ \A generate_potcar \in BOOLEAN : C21_BundleOf(ts, generate_potcar)
    /\ (out.of = "get_vasp_input" /\ out.ok) =>
          /\ ts = out.pre
          /\ out.v = TS_get_vasp_input(ts, out.v.generate_potcar).out.v

\* The bundle of a seeded object with two different steps and an undone
\* transformation.
C21_Witness ==
    /\ out.of = "get_vasp_input" /\ out.ok
    /\ ts.source = "P1"
    /\ Len(ts.transformations) = 2
    /\ ts.transformations[1] # ts.transformations[2]
    /\ ts.structures[1] # ts.structures[3]
    /\ ts.redo_trans # <<>>
    /\ Len(out.v.bundle["transformations.json"]) = 10
    /\ out.v.bundle["POSCAR"] = Last(ts.structures)
    /\ ~out.v.generate_potcar

\* ------------------------------------------------------------------ C22
NoSingleQuote(text) == \A i \in 1 .. Len(text) : text[i] # "'"

\* text with every single quote replaced by a double quote is raw.
QuotesReplaced(text, raw) ==
    /\ Len(raw) = Len(text)
    /\ \A i \in 1 .. Len(text) :
          raw[i] = (IF text[i] = "'" THEN "\"" ELSE text[i])

\* The object an adapter built from structure s: seeded with the one record
\* source_info, starting at s, one step per initial transformation.
C22_Seeded(s) ==
    /\ last.ok
    /\ ts.structures[1] = One(s)
    /\ Len(ts.transformations) = Len(last.ops)
    /\ ts.transformations = last.ops
    /\ ts.redo_trans = <<>>
    /\ ts.source.datetime = utcnow
    /\ NoSingleQuote(ts.source.original_file)
    /\ QuotesReplaced(last.input.text, ts.source.original_file)

\* C22: an adapter whose input parses (and, for a POSCAR, carries element
\* names) and whose initial transformations are accepted builds one object,
\* seeded with a provenance record whose source is the ICSD code followed by
\* "-ICSD" when the cif data has one, and "uploaded cif" / "uploaded POSCAR"
\* otherwise, and whose original_file is the input text with every single
\* quote replaced by a double quote.  A POSCAR without element names raises
\* ValueError and builds nothing, and so does an input that does not parse.
\* No later call changes the provenance record.
C22_AdapterSeedsOne ==
    LET in == last.input
        accepted(s) == TS_init(One(s), last.ops, <<>>).ok
    IN
    /\ last.op = "cif" =>
          IF in.parses /\ in.structures # <<>>
          THEN /\ last.ok <=> accepted(in.structures[1])
               /\ last.ok =>
                     /\ C22_Seeded(in.structures[1])
                     /\ ts.source.cif_data = in.cif_data
                     /\ ts.source.source =
                           (IF "_database_code_ICSD" \in DOMAIN in.cif_data
                            THEN in.cif_data["_database_code_ICSD"] \o "-ICSD"
                            ELSE "uploaded cif")
          ELSE ~last.ok
    /\ last.op = "poscar" =>
          /\ (in.parses /\ ~in.true_names) => (~last.ok /\ last.err = "ValueError")
          /\ ~in.parses => ~last.ok
          /\ (in.parses /\ in.true_names) =>
                /\ last.ok <=> accepted(in.struct)
                /\ last.ok => (C22_Seeded(in.struct) /\ ts.source.source = "uploaded POSCAR")
    /\ (last.op \in {"cif", "poscar"} /\ ~last.ok) => ts = NoTS
    /\ (last.op \notin {"cif", "poscar"}) =>
          /\ ts.source = last.pre.source
          /\ NoSingleQuote(ts.source.original_file)
          /\ ts.source.source \in {"1234-ICSD", "uploaded cif", "uploaded POSCAR"}

\* A cif with an ICSD code and two single quotes in its text, built with one
\* initial transformation.
C22_Witness ==
    /\ last.op = "cif" /\ last.ok
    /\ last.input.text = <<"'", "a", "'">>
    /\ ts.source.original_file = <<"\"", "a", "\"">>
    /\ ts.source.source = "1234-ICSD"
    /\ Len(ts.structures) = 2

\* ------------------------------------------------------------------ C23
\* The positions for which the transformation of the last append returned
\* an empty list.
Pruned == {i \in 1 .. Len(tlast.applied) : Returned(i) = Many(<<>>)}

\* The members at the positions of tr, as values.
Members(hp, tr) == [p \in 1 .. Len(tr) |-> hp[tr[p]]]

RECURSIVE Without(_, _, _)
Without(tr, del, i) ==
    IF i > Len(tr) THEN <<>>
    ELSE (IF i \in del THEN <<>> ELSE <<tr[i]>>) \o Without(tr, del, i + 1)

\* C23: after an append on the tree that returns, the members for which the
\* transformation returned an empty list are gone and have no successor:
\* there is one member less for each of them, and the other members are what
\* the same append leaves of the tree without the pruned members.
C23_PrunedMembersDropped ==
    (tlast.op = "append" /\ tlast.ok) =>
        LET rest == Without(tlast.pre_tree, Pruned, 1)
            r == Tree_append_transformation(tlast.pre_heap, rest, tlast.t,
                                            tlast.clear_redo)
        IN
        /\ r.ok
        /\ Tree_len(tree) = Tree_len(r.tree)
        /\ Members(heap, tree) = Members(r.heap, r.tree)
        /\ (\A i \in 1 .. Len(tlast.applied) : ~IsSplit(i) \/ i \in Pruned) =>
              Tree_len(tree) = Tree_len(tlast.pre_tree) - Cardinality(Pruned)

\* Two members, the first advanced and the second pruned.
C23_Witness ==
    /\ tlast.op = "append" /\ tlast.ok
    /\ Len(tlast.pre_tree) = 2
    /\ Pruned = {2}
    /\ Tree_len(tree) = 1
    /\ Member(1).source = "P1"
    /\ Len(Member(1).structures) = Len(PreMember(1).structures) + 1

\* ------------------------------------------------------------------ C24
\* What the member at position i of the last append counts for afterwards:
\* 1 when the transformation returned a single structure for it, k when it
\* returned a list of k structures.
RECURSIVE CountAfter(_)
CountAfter(i) ==
    IF i = 0 THEN 0
    ELSE CountAfter(i - 1) + (IF IsSplit(i) THEN Len(Returned(i).v) ELSE 1)

\* c appends of split in a row.
RECURSIVE SplitChain(_, _, _)
SplitChain(hp, tr, c) ==
    IF c = 0 THEN TreeRet(TRUE, hp, tr, <<>>)
    ELSE LET r == Tree_append_transformation(hp, tr, "split", TRUE) IN
         IF r.ok THEN SplitChain(r.heap, r.tree, c - 1) ELSE r

RECURSIVE Power(_, _)
Power(k, c) == IF c = 0 THEN 1 ELSE k * Power(k, c - 1)

\* C24: after an append on the tree that returns, the number of members is
\* the sum, over the members before the call, of 1 or of the number of
\* structures the transformation returned for the member; nothing caps it:
\* from any tree of n members, c appends that split every member 2 ways
\* return with n * 2^c members.
C24_CountIsSum ==
    /\ (tlast.op = "append" /\ tlast.ok) =>
          /\ Len(tlast.applied) = Len(tlast.pre_tree)
          /\ Tree_len(tree) = CountAfter(Len(tlast.pre_tree))
    /\ (tlast.op # "init" \/ tlast.ok) =>
          \A c \in 0 .. 2 :
              LET r == SplitChain(heap, tree, c) IN
              IF \A p \in 1 .. Len(tree) : Last(Member(p).structures).kind = "one"
              THEN r.ok /\ Tree_len(r.tree) = Tree_len(tree) * Power(2, c)
              ELSE c = 0 \/ tree = <<>> \/ ~r.ok

\* One member split twice: 1 * 2^2 members, more than the tree was built
\* with.
C24_Witness ==
    /\ tlast.op = "append" /\ tlast.ok /\ tlast.t = "split"
    /\ tlast.n = 2
    /\ Len(heap) = 1
    /\ Len(tlast.pre_tree) = 2
    /\ Tree_len(tree) = 4
    /\ CountAfter(2) = 4

\* ------------------------------------------------------------------ C25
\* The redo lists after the last append are as the claim says, as values:
\* empty with clear_redo, and otherwise the redo list the member (for a
\* successor: the member it replaces) had before the call.
C25_RedoValues ==
    (tlast.op = "append" /\ tlast.ok) =>
        IF tlast.clear_redo
        THEN \A p \in 1 .. Len(tree) : Member(p).redo_trans = <<>>
        ELSE \A i \in 1 .. Len(tlast.pre_tree) :
                IF IsSplit(i)
                THEN \A j \in 1 .. Len(Returned(i).v) :
                        Member(SuccessorPos(i, j)).redo_trans = PreMember(i).redo_trans
                ELSE Member(KeptBy(i)).redo_trans = PreMember(i).redo_trans

\* C25: after an append on the tree with clear_redo = True every member,
\* advanced in place or successor of a split, has an empty redo list; with
\* clear_redo = False a member advanced in place keeps its redo list and
\* every successor of a split member has a redo list of its own, equal to
\* the one of the member it replaces.
C25_RedoAfterTreeAppend ==
    /\ C25_RedoValues
    /\ (tlast.op = "append" /\ tlast.ok /\ ~tlast.clear_redo) =>
          \A i \in 1 .. Len(tlast.pre_tree) :
              IsSplit(i) =>
                  \A j, k \in 1 .. Len(Returned(i).v) :
                      j # k => tree[SuccessorPos(i, j)] # tree[SuccessorPos(i, k)]

\* ------------------------------------------------------------------ C26
\* append_transformation(ops[i], True), then ops[i + 1], ... on an object,
\* until one raises: the object left and the number of calls that returned.
RECURSIVE AppendsInOrder(_, _, _)
AppendsInOrder(x, ops, i) ==
    IF i > Len(ops) THEN [ok |-> TRUE, ts |-> x, done |-> Len(ops)]
    ELSE LET r == TS_append_transformation(x, ops[i], TRUE) IN
         IF r.ok THEN AppendsInOrder(r.ts, ops, i + 1)
         ELSE [ok |-> FALSE, ts |-> r.ts, done |-> i - 1]

\* The same on a tree.
RECURSIVE TreeAppendsInOrder(_, _, _, _)
TreeAppendsInOrder(hp, tr, ops, i) ==
    IF i > Len(ops) THEN [ok |-> TRUE, heap |-> hp, tree |-> tr, done |-> Len(ops)]
    ELSE LET r == Tree_append_transformation(hp, tr, ops[i], TRUE) IN
         IF r.ok THEN TreeAppendsInOrder(r.heap, r.tree, ops, i + 1)
         ELSE [ok |-> FALSE, heap |-> r.heap, tree |-> r.tree, done |-> i - 1]

\* C26: extend_transformations(ops), on an object and on a tree, leaves what
\* append_transformation(op, True) called for each op of ops in order leaves:
\* with no op nothing changes, the redo list included; when the call for the
\* j-th op raises, extend raises, the j - 1 ops before it stay applied and
\* the ops after it are not applied.
C26_ExtendIsAppends ==
    /\ last.op = "extend" =>
          LET ref == AppendsInOrder(last.pre, last.ops, 1) IN
          /\ last.ok = ref.ok
          /\ ts = ref.ts
          /\ last.ops = <<>> => (last.ok /\ ts = last.pre)
          /\ ts.transformations = last.pre.transformations \o SubSeq(last.ops, 1, ref.done)
          /\ ~last.ok => ref.done < Len(last.ops)
    /\ tlast.op = "extend" =>
          LET ref == TreeAppendsInOrder(tlast.pre_heap, tlast.pre_tree, tlast.ops, 1) IN
          /\ tlast.ok = ref.ok
          /\ heap = ref.heap
          /\ tree = ref.tree
          /\ tlast.ops = <<>> => (tlast.ok /\ heap = tlast.pre_heap /\ tree = tlast.pre_tree)
          /\ ~tlast.ok => ref.done < Len(tlast.ops)
          /\ (~tlast.ok /\ ref.done = 1) =>
                Tree_append_transformation(tlast.pre_heap, tlast.pre_tree,
                                           tlast.ops[1], TRUE).ok

\* An extend on a tree of two members with redo entries whose second op is
\* rejected: the first op stays applied to both members.
C26_Witness ==
    /\ tlast.op = "extend" /\ ~tlast.ok
    /\ tlast.ops = <<"inc", "picky">>
    /\ Len(tree) = 2
    /\ \A p \in 1 .. 2 :
          /\ PreMember(p).redo_trans # <<>>
          /\ Member(p).redo_trans = <<>>
          /\ Member(p).transformations = Append(PreMember(p).transformations, "inc")

\* ------------------------------------------------------------------ C27
\* The transformations followed by the undone ones, oldest undone last.
Timeline(x) == x.transformations \o Reverse(x.redo_trans)

\* The last call moved one transformation from the end of transformations
\* to the end of the redo list / back.
C27_Moved ==
    /\ (last.op = "undo" /\ last.ok) =>
          /\ ts.transformations = Front(last.pre.transformations)
          /\ ts.redo_trans = Append(last.pre.redo_trans, Last(last.pre.transformations))
    /\ (last.op = "redo" /\ last.ok) =>
          /\ ts.redo_trans = Front(last.pre.redo_trans)
          /\ ts.transformations = Append(last.pre.transformations, Last(last.pre.redo_trans))
    /\ (last.op \in {"undo", "redo"} /\ last.ok) =>
          /\ Len(ts.transformations) + Len(ts.redo_trans)
                = Len(last.pre.transformations) + Len(last.pre.redo_trans)
          /\ Timeline(ts) = Timeline(last.pre)

\* C27: an undo or a redo that returns moves exactly one transformation
\* between the end of transformations and the end of the redo list, so that
\* the two lengths add up to the same and transformations followed by the
\* reversed redo list is the same sequence; and the entries of the redo list
\* are dropped by nothing but an append with clear_redo = True (on its own
\* or inside extend).
C27_RedoPartConserved ==
    /\ C27_Moved
    /\ (last.op \notin {"init", "none"} /\ ~(last.op \in {"undo", "redo"} /\ last.ok)
        /\ ts.redo_trans # last.pre.redo_trans) =>
          \/ (last.op = "append" /\ last.ok /\ last.clear_redo)
          \/ (last.op = "extend" /\ Len(ts.transformations) > Len(last.pre.transformations))

\* ------------------------------------------------------------------ C28
\* C28: a redo whose replayed transformation rejects the current structure
\* raises and leaves the object as it was before the call: structures and
\* transformations unchanged and the redo list still ending with the entry
\* that was replayed, so that the same redo can be called again.
C28_FailedRedoKeepsEntry ==
    (last.op = "redo" /\ ~last.ok /\ last.pre.redo_trans # <<>>) =>
        /\ apply_transformation(Last(last.pre.redo_trans),
                                Last(last.pre.structures)).kind = "raise"
        /\ SameHistory(ts, last.pre)
        /\ ts.redo_trans = last.pre.redo_trans
        /\ TS_redo_next_transformation(ts).ts = ts

\* ------------------------------------------------------------------ C29
\* C29: an undo rejected because there is no transformation and a redo
\* rejected because the redo list is empty leave structures,
\* transformations, the redo list and the source as they were before the
\* call; an undo is rejected only when there is no transformation.
C29_RejectedUndoRedoUnchanged ==
    /\ (last.op = "undo" /\ Len(last.pre.transformations) = 0) =>
           ~last.ok /\ ts = last.pre
    /\ (last.op = "undo" /\ ~last.ok) => Len(last.pre.transformations) = 0
    /\ (last.op = "redo" /\ Len(last.pre.redo_trans) = 0) =>
           ~last.ok /\ ts = last.pre

\* An undo rejected on an object with a source that holds undone
\* transformations.
C29_Witness ==
    /\ last.op = "undo" /\ ~last.ok
    /\ ts.redo_trans # <<>>
    /\ ts.source # "empty"

\* ------------------------------------------------------------------ C30
\* C30: an object just made, by the constructor or by from_dict of the
\* to_dict of an object whose redo list may hold entries, has an empty redo
\* list, and a redo on it raises and leaves it as it is; the redo list of an
\* object goes from empty to non-empty only by an undo that returns.
C30_FreshHasNoRedo ==
    /\ ts.redo_trans = <<>>
    /\ []((last.op \in {"init", "from_dict"} /\ last.ok) =>
            /\ ts.redo_trans = <<>>
            /\ ~TS_redo_next_transformation(ts).ok
            /\ TS_redo_next_transformation(ts).ts = ts)
    /\ [][(ts.redo_trans = <<>> /\ ts'.redo_trans # <<>>) =>
            /\ last'.op = "undo" /\ last'.ok
            /\ last'.pre = ts]_vars
    /\ [][(ts.redo_trans = <<>> /\ last'.op = "redo" /\ last'.pre = ts) =>
            ~last'.ok /\ ts' = ts]_vars

\* An object read back from the to_dict of an object that held undone
\* transformations.
C30_Witness ==
    /\ last.op = "from_dict" /\ last.ok
    /\ last.pre.redo_trans # <<>>
    /\ ts.transformations # <<>>

\* ------------------------------------------------------------------ C31
\* What each member gives for the query the tree was asked.
C31_MemberResult(i) ==
    IF tlast.op = "getitem" THEN TS_getitem(Member(i), tlast.index)
    ELSE TS_get_vasp_input(Member(i), tlast.generate_potcar)

\* C31: a query on a tree, __getitem__(index) or get_vasp_input, changes
\* neither the tree nor its members, and when every member answers the
\* query it returns the list of the members' answers in the order of the
\* members: the snapshots (structures[index], transformations[0:index]), or
\* the bundles with each member's transformations.json.
C31_TreeQueriesDelegate ==
    tlast.op \in {"getitem", "get_vasp_input"} =>
        /\ tree = tlast.pre_tree
        /\ heap = tlast.pre_heap
        /\ (\A i \in 1 .. Len(tree) : C31_MemberResult(i).ok) =>
               /\ tlast.ok
               /\ tlast.results = [i \in 1 .. Len(tree) |-> C31_MemberResult(i).out.v]

\* What the queries do: they change nothing, return the empty list on a
\* tree without members and raise TypeError on every other tree.
C31_TreeQueriesRaise ==
    tlast.op \in {"getitem", "get_vasp_input"} =>
        /\ tree = tlast.pre_tree
        /\ heap = tlast.pre_heap
        /\ tlast.ok <=> tree = <<>>
        /\ tlast.results = <<>>
        /\ ~tlast.ok => tlast.err = "TypeError"

====
